---------------------------- MODULE Spec2Model ----------------------------
(***************************************************************************)
(* Real-time quote distribution and price alerts of the dashboard backend: *)
(*   src/backend/alert_service.py      AlertService, AlertNotifier         *)
(*   src/backend/websocket_service.py  WebSocketManager,                   *)
(*                                     RealTimeDataService                 *)
(*   src/backend/main.py               the wiring of the services          *)
(* The Redis store is modelled by the three key families the alert service *)
(* uses (alert:<id>, user_alerts:<user>, symbol_alerts:<symbol>).  asyncio *)
(* tasks are modelled by a program counter per task; a step of a task runs *)
(* from one await to the next.                                             *)
(***************************************************************************)
EXTENDS Integers, Sequences, FiniteSets, TLC

VARIABLES
    now,                  \* the reading of datetime.now()
    decode_responses,     \* the decode_responses option of the Redis client
    redis_alerts,         \* alert:<id> -> the stored alert
    redis_user_alerts,    \* user_alerts:<user> -> set of alert ids
    redis_symbol_alerts,  \* symbol_alerts:<symbol> -> set of alert ids
    notif,                \* the task running AlertNotifier.process_symbol_data
    probe,                \* the last call of _check_alert_condition on its own
    active_connections,   \* WebSocketManager.active_connections
    user_connections,     \* WebSocketManager.user_connections
    health,               \* the transport's state of each websocket
    hpc,                  \* where the handler websocket_realtime of each websocket is
    bc,                   \* per symbol, the running call of broadcast_to_symbol
    sched,                \* the loop of start_real_time_updates
    symbol_cache,         \* RealTimeDataService.symbol_cache
    last_update,          \* RealTimeDataService.last_update
    price_history,        \* RealTimeDataService.price_history
    ret                   \* what the operation that has just returned handed to its caller

alertVars == <<redis_alerts, redis_user_alerts, redis_symbol_alerts>>
regVars == <<active_connections, user_connections, health, hpc, bc>>
rtVars == <<sched, symbol_cache, last_update>>
vars == <<now, decode_responses, redis_alerts, redis_user_alerts,
          redis_symbol_alerts, notif, probe, active_connections,
          user_connections, health, hpc, bc, sched, symbol_cache,
          last_update, price_history, ret>>

---------------------------------------------------------------------------
(* Bounds of the model and the values the operations are tried with.       *)

\* datetime.now() ranges over 0..MaxTime
MaxTime == 1
MaxClock == 5
\* the longest list of active symbols the interval is computed for
MaxSymbols == 6
\* the longest price history the trend is computed for
MaxLen == 11

\* Python's None: an absent quote field, expires_at or last_triggered
None == -1
\* an expires_at that datetime.fromisoformat rejects, or an offset-aware one
\* that cannot be compared with the naive datetime.now()
BadExpiry == -2

Users == {"u1", "u2"}
Symbols == {"BTC-USD", "AAPL", "MSFT"}
\* the symbols that subscription requests and alerts name where two suffice
RequestedSymbols == {"BTC-USD", "AAPL"}
Conns == {"c1", "c2"}
AlertIds == 0..MaxTime

AlertConditions ==
    {"price_above", "price_below", "percent_change_up",
     "percent_change_down", "rsi_overbought", "rsi_oversold"}

Range(f) == {f[x] : x \in DOMAIN f}
Perms(S) ==
    {f \in [1..Cardinality(S) -> S] : \A i, j \in DOMAIN f : i # j => f[i] # f[j]}
EmptyMap == [x \in {} |-> None]

---------------------------------------------------------------------------
(* AlertService                                                            *)

\* _check_alert_condition(alert, current_data): the price is read first
\* and its absence answers False for every condition
_check_alert_condition(alert, current_data) ==
    IF current_data.price = None THEN FALSE
    ELSE IF alert.condition = "price_above"
        THEN current_data.price > alert.value
    ELSE IF alert.condition = "price_below"
        THEN current_data.price < alert.value
    ELSE IF alert.condition = "percent_change_up"
        THEN /\ current_data.change_percent # None
             /\ current_data.change_percent > alert.value
    ELSE IF alert.condition = "percent_change_down"
        THEN /\ current_data.change_percent # None
             /\ current_data.change_percent < alert.value
    ELSE IF alert.condition = "rsi_overbought"
        THEN /\ current_data.rsi # None
             /\ current_data.rsi > alert.value
    ELSE IF alert.condition = "rsi_oversold"
        THEN /\ current_data.rsi # None
             /\ current_data.rsi < alert.value
    ELSE FALSE

\* update_alert_status(alert_id, status, trigger_data) on the store `store`
\* at clock reading t: the new store (unchanged when the record is absent)
update_alert_status(store, alert_id, status, t) ==
    IF alert_id \in DOMAIN store
    THEN IF status = "triggered"
         THEN [store EXCEPT ![alert_id] =
                  [@ EXCEPT !.status = status,
                            !.last_triggered = t,
                            !.notification_count = @ + 1]]
         ELSE [store EXCEPT ![alert_id] = [@ EXCEPT !.status = status]]
    ELSE store

\* alert_outcome with the status test folded into the expiry test, the way
\* get_expired_alerts tests both at once: the condition is then tested for
\* every alert, whatever its status
alert_outcome_status_guards_expiry_only(alert, current_data, t) ==
    IF alert.status = "active" /\ alert.expires_at = BadExpiry THEN "raise"
    ELSE IF /\ alert.status = "active"
            /\ alert.expires_at # None
            /\ t > alert.expires_at
        THEN "expire"
    ELSE IF _check_alert_condition(alert, current_data) THEN "trigger"
    ELSE "none"

\* what the loop body of check_alerts_for_symbol does with one alert:
\* "skip" (not active), "raise" (expires_at cannot be parsed or compared),
\* "expire", "trigger" or "none" (condition false)
alert_outcome(alert, current_data, t) ==
    IF alert.status # "active" THEN "skip"
    ELSE IF alert.expires_at = BadExpiry THEN "raise"
    ELSE IF alert.expires_at # None /\ t > alert.expires_at THEN "expire"
    ELSE IF _check_alert_condition(alert, current_data) THEN "trigger"
    ELSE "none"

\* the for loop of check_alerts_for_symbol over the ids in the order
\* smembers returned them, from position i on
\* The result carries the store, the list returned (triggered), whether the
\* except branch was taken (raised) and the ids the loop reached and passed
\* over because their status was not active (skipped).
RECURSIVE check_loop(_, _, _, _, _, _, _, _)
check_loop(order, i, store, triggered, skipped, current_data, t, decode) ==
    IF i > Len(order)
    THEN [store |-> store, triggered |-> triggered, raised |-> FALSE,
          skipped |-> skipped]
    ELSE IF decode
    \* smembers returned str: alert_id.decode() raises AttributeError
    THEN [store |-> store, triggered |-> <<>>, raised |-> TRUE,
          skipped |-> skipped]
    ELSE IF order[i] \notin DOMAIN store
    THEN check_loop(order, i + 1, store, triggered, skipped, current_data, t,
                    decode)
    ELSE LET alert == store[order[i]]
             what == alert_outcome(alert, current_data, t)
         IN  IF what = "raise"
             THEN [store |-> store, triggered |-> <<>>, raised |-> TRUE,
                   skipped |-> skipped]
             ELSE IF what = "expire"
             THEN check_loop(order, i + 1,
                             update_alert_status(store, alert.id, "expired", t),
                             triggered, skipped, current_data, t, decode)
             ELSE IF what = "trigger"
             THEN check_loop(order, i + 1,
                             update_alert_status(store, alert.id, "triggered", t),
                             Append(triggered, alert), skipped, current_data, t,
                             decode)
             ELSE IF what = "skip"
             THEN check_loop(order, i + 1, store, triggered,
                             skipped \cup {alert.id}, current_data, t, decode)
             ELSE check_loop(order, i + 1, store, triggered, skipped,
                             current_data, t, decode)

\* check_alerts_for_symbol(symbol, current_data), the ids visited in `order`
check_alerts_for_symbol(order, store, current_data, t, decode) ==
    check_loop(order, 1, store, <<>>, {}, current_data, t, decode)

\* get_expired_alerts(): the overdue active alerts; one active alert whose
\* expires_at cannot be parsed or compared makes the scan answer []
get_expired_alerts(store, t) ==
    IF \E id \in DOMAIN store :
           store[id].status = "active" /\ store[id].expires_at = BadExpiry
    THEN {}
    ELSE {id \in DOMAIN store :
             /\ store[id].status = "active"
             /\ store[id].expires_at # None
             /\ t > store[id].expires_at}

\* float(alert_data['value']) raises on a missing or non-numeric value;
\* alert_data['symbol'] and alert_data['condition'] raise when missing
create_raises(alert_data) ==
    \/ alert_data.symbol = "<missing>"
    \/ alert_data.condition = "<missing>"
    \/ alert_data.value = None

\* the alert create_alert builds; the id is the clock reading
new_alert(user_id, alert_data, t) ==
    [id |-> t,
     user_id |-> user_id,
     symbol |-> alert_data.symbol,
     condition |-> alert_data.condition,
     value |-> alert_data.value,
     status |-> "active",
     expires_at |-> alert_data.expires_at,
     notification_count |-> 0,
     last_triggered |-> None]

NoQuote == [price |-> None, change_percent |-> None, rsi |-> None]

\* Nothing has just returned.  While ret holds the result of an operation
\* the only step is the caller taking it (Return): a synchronous method and
\* its return are one uninterrupted run on the event loop.
NoRet ==
    [op |-> "none", val |-> None, symbol |-> "none", data |-> NoQuote,
     handed |-> <<>>, attempts |-> <<>>, delivered |-> <<>>,
     transitioned |-> {}, skipped |-> {},
     conn |-> "none", raised |-> FALSE, tried |-> <<>>, sent |-> <<>>,
     start |-> <<>>, left |-> {}, caller |-> "none", user |-> "none",
     sends |-> <<>>, arg |-> None, prices |-> <<>>, trend |-> "none"]

Returns(op, val) == [NoRet EXCEPT !.op = op, !.val = val]

\* create_alert(user_id, alert_data)
create_alert(user_id, alert_data) ==
    /\ ret = NoRet
    /\ IF create_raises(alert_data)
       THEN /\ UNCHANGED alertVars
            /\ ret' = Returns("create_alert", None)
       ELSE /\ redis_alerts' =
                  [id \in DOMAIN redis_alerts \cup {now} |->
                      IF id = now THEN new_alert(user_id, alert_data, now)
                      ELSE redis_alerts[id]]
            /\ redis_user_alerts' =
                  [redis_user_alerts EXCEPT ![user_id] = @ \cup {now}]
            /\ redis_symbol_alerts' =
                  [redis_symbol_alerts EXCEPT ![alert_data.symbol] = @ \cup {now}]
            /\ ret' = Returns("create_alert", now)
    /\ UNCHANGED <<now, decode_responses, notif, probe, regVars, rtVars, price_history>>

\* delete_alert(user_id, alert_id): no check that the alert is user_id's
delete_alert(user_id, alert_id) ==
    /\ ret = NoRet
    /\ IF alert_id \in DOMAIN redis_alerts
       THEN /\ redis_alerts' =
                  [id \in DOMAIN redis_alerts \ {alert_id} |-> redis_alerts[id]]
            /\ redis_user_alerts' =
                  [redis_user_alerts EXCEPT ![user_id] = @ \ {alert_id}]
            /\ redis_symbol_alerts' =
                  [redis_symbol_alerts EXCEPT
                      ![redis_alerts[alert_id].symbol] = @ \ {alert_id}]
            /\ ret' = [Returns("delete_alert", 1) EXCEPT
                          !.user = user_id, !.handed = <<alert_id>>]
       ELSE /\ UNCHANGED alertVars
            /\ ret' = [Returns("delete_alert", 0) EXCEPT
                          !.user = user_id, !.handed = <<alert_id>>]
    /\ UNCHANGED <<now, decode_responses, notif, probe, regVars, rtVars, price_history>>

\* sorted(alerts, key=created_at, reverse=True) on the ids of the alerts: the
\* id of an alert is the clock reading at its creation
RECURSIVE SortedDescending(_)
SortedDescending(ids) ==
    IF ids = {} THEN <<>>
    ELSE LET latest == CHOOSE x \in ids : \A y \in ids : y <= x
         IN  <<latest>> \o SortedDescending(ids \ {latest})

\* get_user_alerts(user_id): the alerts stored under the ids of the user's
\* set, latest first; alert_id.decode() raises on the first id when the
\* client returns str, and the except branch returns []
get_user_alerts(user_id) ==
    /\ ret = NoRet
    /\ LET alert_ids == redis_user_alerts[user_id]
           raises == decode_responses /\ alert_ids # {}
           alerts == {id \in alert_ids : id \in DOMAIN redis_alerts}
       IN  ret' = [Returns("get_user_alerts", None) EXCEPT
                      !.user = user_id,
                      !.raised = raises,
                      !.handed = IF raises THEN <<>>
                                 ELSE SortedDescending(alerts)]
    /\ UNCHANGED <<now, decode_responses, alertVars, notif, probe, regVars,
                   rtVars, price_history>>

\* the updates cleanup_expired_alerts makes, one alert after the other
RECURSIVE expire_all(_, _, _)
expire_all(store, ids, t) ==
    IF ids = {} THEN store
    ELSE LET id == CHOOSE x \in ids : TRUE
         IN  expire_all(update_alert_status(store, id, "expired", t),
                        ids \ {id}, t)

\* cleanup_expired_alerts(): returns the number of alerts it updated
cleanup_expired_alerts ==
    /\ ret = NoRet
    /\ LET expired == get_expired_alerts(redis_alerts, now)
       IN  /\ redis_alerts' = expire_all(redis_alerts, expired, now)
           /\ ret' = Returns("cleanup_expired_alerts", Cardinality(expired))
    /\ UNCHANGED <<now, decode_responses, redis_user_alerts,
                   redis_symbol_alerts, notif, probe, regVars, rtVars, price_history>>

---------------------------------------------------------------------------
(* WebSocketManager                                                        *)

\* list.remove(x): the list without the first occurrence of x
RECURSIVE RemoveFirst(_, _)
RemoveFirst(q, x) ==
    IF q = <<>> THEN <<>>
    ELSE IF Head(q) = x THEN Tail(q)
    ELSE <<Head(q)>> \o RemoveFirst(Tail(q), x)

Count(q, x) == Cardinality({k \in DOMAIN q : q[k] = x})

\* the for loop of connect: the websocket is appended to the list of each
\* symbol of the request, in the order and as often as the request names it
RECURSIVE connect_symbols(_, _, _)
connect_symbols(ac, ws, symbols) ==
    IF symbols = <<>> THEN ac
    ELSE LET sym == Head(symbols)
             ac1 == [k \in DOMAIN ac \cup {sym} |->
                        IF k = sym
                        THEN (IF sym \in DOMAIN ac THEN ac[sym] ELSE <<>>)
                             \o <<ws>>
                        ELSE ac[k]]
         IN  connect_symbols(ac1, ws, Tail(symbols))

\* disconnect, first loop: one occurrence of the websocket is removed from
\* the list of every symbol that holds it, and a list left empty is deleted
disconnect_symbols(ac, ws) ==
    LET after == [k \in DOMAIN ac |->
                     IF ws \in Range(ac[k]) THEN RemoveFirst(ac[k], ws)
                     ELSE ac[k]]
        kept == {k \in DOMAIN ac : ~(ws \in Range(ac[k]) /\ after[k] = <<>>)}
    IN  [k \in kept |-> after[k]]

\* disconnect with the second loop deleting the first client id whatever it
\* is mapped to
disconnect_user_ignores_identity(uc, ws) ==
    IF DOMAIN uc # {}
    THEN LET client_id == CHOOSE k \in DOMAIN uc : TRUE
         IN  [k \in DOMAIN uc \ {client_id} |-> uc[k]]
    ELSE uc

\* disconnect, second loop: the first client id mapped to the websocket is
\* removed (connect runs once per websocket, so there is at most one)
disconnect_user(uc, ws) ==
    IF \E k \in DOMAIN uc : uc[k] = ws
    THEN LET client_id == CHOOSE k \in DOMAIN uc : uc[k] = ws
         IN  [k \in DOMAIN uc \ {client_id} |-> uc[k]]
    ELSE uc

NoBroadcast ==
    [pc |-> "idle", idx |-> 0, cur |-> "none", disconnected |-> <<>>,
     attached |-> FALSE, caller |-> "none", message |-> NoQuote, time |-> None,
     tried |-> <<>>, sent |-> <<>>, start |-> <<>>, left |-> {}]

\* websocket_realtime up to the end of WebSocketManager.connect
connect(ws, client_id, symbols) ==
    /\ ret = NoRet
    /\ hpc[ws] = "new"
    /\ health[ws] = "open"
    /\ active_connections' = connect_symbols(active_connections, ws, symbols)
    /\ user_connections' =
          [k \in DOMAIN user_connections \cup {client_id} |->
              IF k = client_id THEN ws ELSE user_connections[k]]
    /\ hpc' = [hpc EXCEPT ![ws] = "connected"]
    /\ ret' = [Returns("connect", None) EXCEPT !.conn = ws]
    /\ UNCHANGED <<now, decode_responses, alertVars, notif, probe, health, bc,
                   rtVars, price_history>>

\* the except branches of websocket_realtime: a send to the client failed
\* and the handler calls WebSocketManager.disconnect.  A list emptied and
\* deleted here is no longer the list a running broadcast_to_symbol of the
\* symbol iterates over (attached); left notes who was removed meanwhile.
disconnect(ws) ==
    /\ ret = NoRet
    /\ hpc[ws] = "connected"
    /\ health[ws] = "closed"
    /\ active_connections' = disconnect_symbols(active_connections, ws)
    /\ user_connections' = disconnect_user(user_connections, ws)
    /\ hpc' = [hpc EXCEPT ![ws] = "gone"]
    /\ bc' = [sym \in Symbols |->
                 IF bc[sym].pc = "await"
                 THEN [bc[sym] EXCEPT
                          !.attached = @ /\ sym \in DOMAIN active_connections',
                          !.left = IF /\ bc[sym].attached
                                      /\ ws \in Range(active_connections[sym])
                                   THEN @ \cup {ws} ELSE @]
                 ELSE bc[sym]]
    /\ ret' = [Returns("disconnect", None) EXCEPT !.conn = ws]
    /\ UNCHANGED <<now, decode_responses, alertVars, notif, probe, health,
                   rtVars, price_history>>

\* the peer of a connected websocket goes away: sends to it raise from now on
close(ws) ==
    /\ ret = NoRet
    /\ hpc[ws] = "connected"
    /\ health[ws] = "open"
    /\ health' = [health EXCEPT ![ws] = "closed"]
    /\ UNCHANGED <<now, decode_responses, alertVars, notif, probe,
                   active_connections, user_connections, hpc, bc, rtVars, price_history, ret>>

\* the peer of a connected websocket stops reading: a send to it never
\* completes (send_json is awaited without a timeout)
block(ws) ==
    /\ ret = NoRet
    /\ hpc[ws] = "connected"
    /\ health[ws] = "open"
    /\ health' = [health EXCEPT ![ws] = "blocked"]
    /\ UNCHANGED <<now, decode_responses, alertVars, notif, probe,
                   active_connections, user_connections, hpc, bc, rtVars, price_history, ret>>

\* the second loop of broadcast_to_symbol: every connection whose send raised
\* is removed from the list the symbol has now; the key may be gone
\* (KeyError) or the connection no longer in the list (ValueError)
RECURSIVE remove_disconnected(_, _, _)
remove_disconnected(ac, symbol, disconnected) ==
    IF disconnected = <<>> THEN [ac |-> ac, raised |-> FALSE]
    ELSE IF symbol \notin DOMAIN ac THEN [ac |-> ac, raised |-> TRUE]
    ELSE IF Head(disconnected) \notin Range(ac[symbol])
    THEN [ac |-> ac, raised |-> TRUE]
    ELSE remove_disconnected(
             [ac EXCEPT ![symbol] = RemoveFirst(@, Head(disconnected))],
             symbol, Tail(disconnected))

\* the list the for loop of a running broadcast_to_symbol iterates over
iterated(symbol) ==
    IF bc[symbol].attached /\ symbol \in DOMAIN active_connections
    THEN active_connections[symbol] ELSE <<>>

\* what a finished call of broadcast_to_symbol leaves to be observed
BroadcastReturns(symbol, b, raised) ==
    [NoRet EXCEPT
        !.op = "broadcast_to_symbol", !.val = b.time, !.symbol = symbol,
        !.data = b.message,
        !.raised = raised, !.tried = b.tried, !.sent = b.sent,
        !.start = b.start, !.left = b.left, !.caller = b.caller]

\* update_symbol_data after its await of broadcast_to_symbol: the cache and
\* last_update are written unless the broadcast raised
after_broadcast(symbol, b, raised) ==
    IF b.caller = "update_symbol_data"
    THEN /\ symbol_cache' =
               IF raised THEN symbol_cache
               ELSE [symbol_cache EXCEPT ![symbol] = b.message]
         /\ last_update' =
               IF raised THEN last_update
               ELSE [last_update EXCEPT ![symbol] = b.time]
         /\ sched' = [sched EXCEPT !.running = @ \ {symbol}]
    ELSE UNCHANGED rtVars

\* broadcast_to_symbol(symbol, message) from its call to its first await, or
\* to its end when the symbol has no list or an empty one
broadcast_start(symbol, message, caller, t) ==
    LET b == [NoBroadcast EXCEPT !.caller = caller, !.message = message,
                                 !.time = t]
    IN  IF symbol \in DOMAIN active_connections
           /\ active_connections[symbol] # <<>>
        THEN /\ bc' = [bc EXCEPT ![symbol] =
                         [b EXCEPT !.pc = "await", !.idx = 1,
                                   !.cur = active_connections[symbol][1],
                                   !.attached = TRUE,
                                   !.tried = <<active_connections[symbol][1]>>,
                                   !.start = active_connections[symbol]]]
             /\ ret' = NoRet
             /\ IF caller = "update_symbol_data"
                THEN /\ sched' = [sched EXCEPT !.pending = @ \ {symbol},
                                               !.running = @ \cup {symbol}]
                     /\ UNCHANGED <<symbol_cache, last_update>>
                ELSE UNCHANGED rtVars
        ELSE /\ bc' = bc
             /\ ret' = BroadcastReturns(symbol, b, FALSE)
             /\ IF caller = "update_symbol_data"
                THEN /\ symbol_cache' = [symbol_cache EXCEPT ![symbol] = message]
                     /\ last_update' = [last_update EXCEPT ![symbol] = t]
                     /\ sched' = [sched EXCEPT !.pending = @ \ {symbol}]
                ELSE UNCHANGED rtVars

\* a caller other than the polling loop calls broadcast_to_symbol
broadcast_to_symbol(symbol, message) ==
    /\ ret = NoRet
    /\ bc[symbol].pc = "idle"
    /\ broadcast_start(symbol, message, "api", None)
    /\ UNCHANGED <<now, decode_responses, alertVars, notif, probe,
                   active_connections, user_connections, health, hpc,
                   price_history>>

\* the send_json awaited in broadcast_to_symbol returns or raises, and the
\* call runs on to its next await or to its end
broadcast_step(symbol) ==
    /\ ret = NoRet
    /\ bc[symbol].pc = "await"
    /\ health[bc[symbol].cur] # "blocked"
    /\ LET b == bc[symbol]
           ok == health[b.cur] = "open"
           b1 == [b EXCEPT
                     !.sent = IF ok THEN Append(@, b.cur) ELSE @,
                     !.disconnected = IF ok THEN @ ELSE Append(@, b.cur),
                     !.idx = @ + 1]
           list == iterated(symbol)
       IN  IF b1.idx <= Len(list)
           THEN /\ bc' = [bc EXCEPT ![symbol] =
                            [b1 EXCEPT !.cur = list[b1.idx],
                                       !.tried = Append(@, list[b1.idx])]]
                /\ UNCHANGED <<active_connections, rtVars, ret>>
           ELSE LET rm == remove_disconnected(active_connections, symbol,
                                              b1.disconnected)
                IN  /\ active_connections' = rm.ac
                    /\ bc' = [bc EXCEPT ![symbol] = NoBroadcast]
                    /\ ret' = BroadcastReturns(symbol, b1, rm.raised)
                    /\ after_broadcast(symbol, b1, rm.raised)
    /\ UNCHANGED <<now, decode_responses, alertVars, notif, probe,
                   user_connections, health, hpc, price_history>>

\* RealTimeDataService.__init__, and the polling loop about to look at the
\* registry
InitRealTime ==
    /\ bc = [sym \in Symbols |-> NoBroadcast]
    /\ sched = [pc |-> "sleep", pending |-> {}, running |-> {}, wake |-> 0,
                n |-> 0]
    /\ symbol_cache = [sym \in Symbols |-> NoQuote]
    /\ last_update = [sym \in Symbols |-> None]
    /\ price_history = [sym \in Symbols |-> <<>>]

---------------------------------------------------------------------------
(* RealTimeDataService                                                     *)

\* any(crypto in symbol for crypto in ['BTC', 'ETH', 'ADA', 'SOL', 'XRP'])
IsCrypto(symbol) == symbol = "BTC-USD"

_should_update(symbol, t) ==
    IF last_update[symbol] = None THEN TRUE
    ELSE IF IsCrypto(symbol) THEN t - last_update[symbol] >= 3
    ELSE t - last_update[symbol] >= 5

\* the interval with 10 / n rounded up to whole seconds
update_interval_rounds_up(n) ==
    LET m == IF n > 1 THEN n ELSE 1
        d == (10 + m - 1) \div m
    IN  IF d > 2 THEN d ELSE 2

\* max(2, 10 // max(1, len(active_symbols)))
update_interval(n) ==
    LET d == 10 \div (IF n > 1 THEN n ELSE 1)
    IN  IF d > 2 THEN d ELSE 2

\* append_price_point with the trim done before the append
append_price_point_trims_first(history, t, price) ==
    LET kept == IF Len(history) > 100
                THEN SubSeq(history, Len(history) - 99, Len(history))
                ELSE history
    IN  Append(kept, [timestamp |-> t, price |-> price])

\* price_history[symbol].append(price_point), then only the last 100 points
\* are kept
append_price_point(history, t, price) ==
    LET appended == Append(history, [timestamp |-> t, price |-> price])
    IN  IF Len(appended) > 100
        THEN SubSeq(appended, Len(appended) - 99, Len(appended))
        ELSE appended

RECURSIVE SumSeq(_)
SumSeq(q) == IF q = <<>> THEN 0 ELSE Head(q) + SumSeq(Tail(q))

\* the prices of the last at most count points of a history
LastPrices(history, count) ==
    LET len == IF Len(history) < count THEN Len(history) ELSE count
    IN  [k \in 1..len |-> history[Len(history) - len + k].price]

\* the slope of np.polyfit(x, y, 1) for x = 0..n-1 as a fraction with a
\* positive denominator, from the normal equations of the least squares
\* line: (n Sxy - Sx Sy) / (n Sxx - Sx Sx)
polyfit_slope(y) ==
    LET n == Len(y)
        Sx == SumSeq([k \in 1..n |-> k - 1])
        Sy == SumSeq(y)
        Sxy == SumSeq([k \in 1..n |-> (k - 1) * y[k]])
        Sxx == SumSeq([k \in 1..n |-> (k - 1) * (k - 1)])
    IN  [num |-> n * Sxy - Sx * Sy, den |-> n * Sxx - Sx * Sx]

\* the comparison of the slope with 0.001 and -0.001
classify_slope(slope) ==
    IF 1000 * slope.num > slope.den THEN "up"
    ELSE IF 1000 * slope.num < 0 - slope.den THEN "down"
    ELSE "neutral"

\* _calculate_price_trend with the line fitted to the whole history
_calculate_price_trend_over_whole_history(history) ==
    IF Len(history) < 5 THEN "neutral"
    ELSE classify_slope(polyfit_slope(LastPrices(history, Len(history))))

\* _calculate_price_trend(symbol) on the history of the symbol
_calculate_price_trend(history) ==
    IF Len(history) < 5 THEN "neutral"
    ELSE LET prices == LastPrices(history, 10)
         IN  IF Len(prices) < 2 THEN "neutral"
             ELSE classify_slope(polyfit_slope(prices))

\* one turn of the loop of start_real_time_updates, from the end of its
\* sleep to its next await: the sleep of 10 s without active symbols, the
\* gather of update_multiple_symbols over the symbols that are due, or the
\* sleep of the interval when none is due
cycle_start ==
    /\ ret = NoRet
    /\ sched.pc = "sleep"
    /\ now >= sched.wake
    /\ LET active_symbols == DOMAIN active_connections
           n == Cardinality(active_symbols)
           due == {sym \in active_symbols : _should_update(sym, now)}
       IN  sched' =
             IF active_symbols = {}
             THEN [sched EXCEPT !.wake = now + 10, !.n = 0]
             ELSE IF due = {}
             THEN [sched EXCEPT !.wake = now + update_interval(n), !.n = n]
             ELSE [sched EXCEPT !.pc = "gather", !.pending = due, !.n = n]
    /\ UNCHANGED <<now, decode_responses, alertVars, notif, probe, regVars,
                   symbol_cache, last_update, price_history, ret>>

\* what a call of update_symbol_data that got no data leaves to be observed
FetchFailed(symbol, fetch) ==
    [NoRet EXCEPT !.op = "update_symbol_data", !.symbol = symbol,
                  !.caller = fetch.outcome]

\* update_symbol_data with last_update written whenever the fetch has
\* returned, with or without data
update_symbol_data_stamps_every_fetch(symbol, fetch) ==
    /\ ret = NoRet
    /\ sched.pc = "gather"
    /\ symbol \in sched.pending
    /\ bc[symbol].pc = "idle"
    /\ IF fetch.outcome \in {"raise", "empty"}
       THEN /\ sched' = [sched EXCEPT !.pending = @ \ {symbol}]
            /\ ret' = FetchFailed(symbol, fetch)
            /\ last_update' =
                  IF fetch.outcome = "empty"
                  THEN [last_update EXCEPT ![symbol] = now]
                  ELSE last_update
            /\ UNCHANGED <<bc, symbol_cache, price_history>>
       ELSE /\ price_history' =
                  [price_history EXCEPT ![symbol] =
                      append_price_point(@, now, fetch.quote.price)]
            /\ broadcast_start(symbol, fetch.quote, "update_symbol_data", now)
    /\ UNCHANGED <<now, decode_responses, alertVars, notif, probe,
                   active_connections, user_connections, health, hpc>>

\* a task of the gather runs update_symbol_data(symbol) to its first await
\* or to its end.  fetch is what ticker.history gives: it raises, it is
\* empty, or it has a last row, from which the message is built.  Nothing
\* in update_symbol_data calls the alert service.  The tasks are started in
\* any order (the order of the keys of active_connections is not kept).
update_symbol_data(symbol, fetch) ==
    /\ ret = NoRet
    /\ sched.pc = "gather"
    /\ symbol \in sched.pending
    /\ bc[symbol].pc = "idle"
    /\ IF fetch.outcome \in {"raise", "empty"}
       THEN /\ sched' = [sched EXCEPT !.pending = @ \ {symbol}]
            /\ ret' = FetchFailed(symbol, fetch)
            /\ UNCHANGED <<bc, symbol_cache, last_update, price_history>>
       ELSE /\ price_history' =
                  [price_history EXCEPT ![symbol] =
                      append_price_point(@, now, fetch.quote.price)]
            /\ broadcast_start(symbol, fetch.quote, "update_symbol_data", now)
    /\ UNCHANGED <<now, decode_responses, alertVars, notif, probe,
                   active_connections, user_connections, health, hpc>>

\* the gather of update_multiple_symbols returns when every task has ended,
\* and the loop goes to sleep for the interval
cycle_end ==
    /\ ret = NoRet
    /\ sched.pc = "gather"
    /\ sched.pending = {}
    /\ sched.running = {}
    /\ sched' = [sched EXCEPT !.pc = "sleep",
                              !.wake = now + update_interval(sched.n)]
    /\ UNCHANGED <<now, decode_responses, alertVars, notif, probe, regVars,
                   symbol_cache, last_update, price_history, ret>>

\* time passes
Advance ==
    /\ ret = NoRet
    /\ now < MaxClock
    /\ now' = now + 1
    /\ UNCHANGED <<decode_responses, alertVars, notif, probe, regVars,
                   rtVars, price_history, ret>>

---------------------------------------------------------------------------
(* AlertNotifier                                                           *)

\* notify_loop with broadcast_to_user falling back, for a user without a
\* connection, on some connection of another user
RECURSIVE notify_loop_falls_back(_, _, _, _)
notify_loop_falls_back(triggered, i, attempts, uc) ==
    IF i > Len(triggered)
    THEN [pc |-> "idle", idx |-> i, attempts |-> attempts, conn |-> "none"]
    ELSE IF DOMAIN uc # {}
    THEN [pc |-> "await", idx |-> i,
          attempts |-> Append(attempts, triggered[i].id),
          conn |-> IF triggered[i].user_id \in DOMAIN uc
                   THEN uc[triggered[i].user_id]
                   ELSE uc[CHOOSE u \in DOMAIN uc : TRUE]]
    ELSE notify_loop_falls_back(triggered, i + 1,
                                Append(attempts, triggered[i].id), uc)

\* the for loop of process_symbol_data from position i on, up to the first
\* await that suspends: broadcast_to_user awaits send_json only when the
\* user has a connection.  attempts lists the calls of broadcast_to_user;
\* the sends of the task list those of them that called send_json.
RECURSIVE notify_loop(_, _, _, _)
notify_loop(triggered, i, attempts, uc) ==
    IF i > Len(triggered)
    THEN [pc |-> "idle", idx |-> i, attempts |-> attempts, conn |-> "none"]
    ELSE IF triggered[i].user_id \in DOMAIN uc
    THEN [pc |-> "await", idx |-> i,
          attempts |-> Append(attempts, triggered[i].id),
          conn |-> uc[triggered[i].user_id]]
    ELSE notify_loop(triggered, i + 1, Append(attempts, triggered[i].id), uc)

NotifIdle ==
    [pc |-> "idle", symbol |-> "none", data |-> NoQuote, triggered |-> <<>>,
     idx |-> 1, attempts |-> <<>>, conn |-> "none", sends |-> <<>>,
     delivered |-> <<>>, transitioned |-> {}, skipped |-> {}]

\* what a finished call of process_symbol_data leaves to be observed
NotifReturns(n) ==
    [NoRet EXCEPT
        !.op = "process_symbol_data", !.val = Len(n.triggered),
        !.symbol = n.symbol, !.data = n.data,
        !.handed = [k \in DOMAIN n.triggered |-> n.triggered[k].id],
        !.attempts = n.attempts, !.sends = n.sends,
        !.delivered = n.delivered,
        !.transitioned = n.transitioned, !.skipped = n.skipped]

\* process_symbol_data(symbol, market_data) up to its first suspension
process_symbol_data(symbol, market_data, order) ==
    /\ ret = NoRet
    /\ notif.pc = "idle"
    /\ LET res == check_alerts_for_symbol(order, redis_alerts, market_data,
                                          now, decode_responses)
           run == notify_loop(res.triggered, 1, <<>>, user_connections)
           n == [pc |-> run.pc,
                 symbol |-> symbol,
                 data |-> market_data,
                 triggered |-> res.triggered,
                 idx |-> run.idx,
                 attempts |-> run.attempts,
                 conn |-> run.conn,
                 sends |-> IF run.pc = "await"
                           THEN <<res.triggered[run.idx].id>> ELSE <<>>,
                 delivered |-> <<>>,
                 transitioned |->
                     {id \in DOMAIN redis_alerts :
                         /\ redis_alerts[id].status = "active"
                         /\ res.store[id].status = "triggered"},
                 skipped |-> res.skipped]
       IN  /\ redis_alerts' = res.store
           /\ IF run.pc = "idle"
              THEN notif' = NotifIdle /\ ret' = NotifReturns(n)
              ELSE notif' = n /\ ret' = NoRet
    /\ UNCHANGED <<now, decode_responses, redis_user_alerts,
                   redis_symbol_alerts, probe, regVars, rtVars, price_history>>

\* the send_json awaited in broadcast_to_user returns or raises (the error is
\* logged and dropped), and the loop of process_symbol_data goes on
notify_resume ==
    /\ ret = NoRet
    /\ notif.pc = "await"
    /\ health[notif.conn] # "blocked"
    /\ LET run == notify_loop(notif.triggered, notif.idx + 1, notif.attempts,
                              user_connections)
           n == [notif EXCEPT
                    !.pc = run.pc,
                    !.idx = run.idx,
                    !.attempts = run.attempts,
                    !.conn = run.conn,
                    !.sends = IF run.pc = "await"
                              THEN Append(@, notif.triggered[run.idx].id)
                              ELSE @,
                    !.delivered =
                        IF health[notif.conn] = "open"
                        THEN Append(@, notif.triggered[notif.idx].id)
                        ELSE @]
       IN  IF run.pc = "idle"
           THEN notif' = NotifIdle /\ ret' = NotifReturns(n)
           ELSE notif' = n /\ ret' = NoRet
    /\ UNCHANGED <<now, decode_responses, alertVars, price_history, probe, regVars, rtVars, price_history>>

\* the caller takes the result of the operation that has just returned
Return ==
    /\ ret # NoRet
    /\ ret' = NoRet
    /\ UNCHANGED <<now, decode_responses, alertVars, price_history, notif, probe, regVars, rtVars, price_history>>

\* time passes
Tick ==
    /\ ret = NoRet
    /\ now < MaxTime
    /\ now' = now + 1
    /\ UNCHANGED <<decode_responses, alertVars, price_history, notif, probe, regVars, rtVars, price_history, ret>>

---------------------------------------------------------------------------
(* The alert engine on its own: alerts are created and deleted, quotes are *)
(* handed to process_symbol_data, the sweep runs, time passes.             *)

\* the quotes process_symbol_data is tried with
EvalQuotes ==
    {[price |-> p, change_percent |-> None, rsi |-> None] : p \in {None, 1, 2}}

\* the requests create_alert is tried with
AlertInputs ==
    [symbol : RequestedSymbols, condition : {"price_above"}, value : {1},
     expires_at : {None, BadExpiry, 0}]

NoProbe == [condition |-> "none", value |-> None, data |-> NoQuote,
            result |-> FALSE]

\* AlertService.__init__ and AlertNotifier.__init__ over an empty store
InitAlerts ==
    /\ now = 0
    /\ decode_responses \in BOOLEAN
    /\ redis_alerts = EmptyMap
    /\ redis_user_alerts = [u \in Users |-> {}]
    /\ redis_symbol_alerts = [s \in Symbols |-> {}]
    /\ notif = NotifIdle
    /\ probe = NoProbe
    /\ ret = NoRet

\* nobody is connected
InitAlert ==
    /\ InitAlerts
    /\ active_connections = EmptyMap
    /\ user_connections = EmptyMap
    /\ hpc = [c \in Conns |-> "new"]
    /\ health = [c \in Conns |-> "open"]
    /\ InitRealTime

NextAlert ==
    \/ Tick
    \/ Return
    \/ \E d \in AlertInputs : create_alert("u1", d)
    \/ \E id \in AlertIds : delete_alert("u1", id)
    \/ \E s \in RequestedSymbols, q \in EvalQuotes :
          \E order \in Perms(redis_symbol_alerts[s]) :
             process_symbol_data(s, q, order)
    \/ cleanup_expired_alerts

SpecAlert == InitAlert /\ [][NextAlert]_vars

---------------------------------------------------------------------------
(* _check_alert_condition on its own, over every condition and quote.      *)

QuoteValues == {None, 0, 1, 2}
ProbeQuotes ==
    [price : QuoteValues, change_percent : QuoteValues, rsi : QuoteValues]
ProbeThresholds == {1}

check_condition_call(condition, value, data) ==
    /\ probe' = [condition |-> condition, value |-> value, data |-> data,
                 result |-> _check_alert_condition(
                     [condition |-> condition, value |-> value], data)]
    /\ UNCHANGED <<now, decode_responses, alertVars, price_history, notif, regVars, rtVars, price_history, ret>>

NextCond ==
    \E c \in AlertConditions, v \in ProbeThresholds, d \in ProbeQuotes :
        check_condition_call(c, v, d)

SpecCond == InitAlert /\ [][NextCond]_vars

---------------------------------------------------------------------------
(* The registry under its callers: clients connect, their peers go away or *)
(* stall, handlers disconnect, and broadcasts run concurrently with them.  *)

\* the subscription requests connect is tried with: up to two symbols,
\* repeated or not
Requests ==
    {<<>>} \cup {<<a>> : a \in RequestedSymbols} \cup
    {<<a, b>> : a, b \in RequestedSymbols}

BroadcastQuote == [price |-> 1, change_percent |-> 0, rsi |-> None]

InitRegistry ==
    /\ InitAlerts
    /\ active_connections = EmptyMap
    /\ user_connections = EmptyMap
    /\ hpc = [c \in Conns |-> "new"]
    /\ health = [c \in Conns |-> "open"]
    /\ InitRealTime

NextRegistry ==
    \/ Return
    \/ \E c \in Conns, u \in Users, r \in Requests : connect(c, u, r)
    \/ \E c \in Conns : disconnect(c)
    \/ \E c \in Conns : close(c)
    \/ \E c \in Conns : block(c)
    \/ \E sym \in RequestedSymbols : broadcast_to_symbol(sym, BroadcastQuote)
    \/ \E sym \in Symbols : broadcast_step(sym)

SpecRegistry == InitRegistry /\ [][NextRegistry]_vars

---------------------------------------------------------------------------
(* The polling loop over the registry, next to the alert service.          *)

FetchOutcomes ==
    {[outcome |-> o, quote |-> NoQuote] : o \in {"raise", "empty"}} \cup
    {[outcome |-> "data",
      quote |-> [price |-> p, change_percent |-> 0, rsi |-> None]] :
        p \in {1, 2}}

SchedRequests == {<<a>> : a \in RequestedSymbols}

SchedAlertInputs ==
    [symbol : {"BTC-USD"}, condition : {"price_above"}, value : {1},
     expires_at : {None}]

NextSched ==
    \/ Return
    \/ Advance
    \/ \E c \in Conns, r \in SchedRequests : connect(c, "u1", r)
    \/ \E c \in Conns : disconnect(c)
    \/ \E c \in Conns : close(c)
    \/ \E c \in Conns : block(c)
    \/ cycle_start
    \/ \E sym \in Symbols, f \in FetchOutcomes : update_symbol_data(sym, f)
    \/ \E sym \in Symbols : broadcast_step(sym)
    \/ cycle_end

SpecSched == InitRegistry /\ [][NextSched]_vars

SchedFairness ==
    /\ WF_vars(Return)
    /\ WF_vars(cycle_start)
    /\ WF_vars(cycle_end)
    /\ \A sym \in Symbols :
          /\ WF_vars(\E f \in FetchOutcomes : update_symbol_data(sym, f))
          /\ WF_vars(broadcast_step(sym))

SpecSchedFair == SpecSched /\ SchedFairness

\* the polling loop next to the alert service
NextFlow ==
    \/ Return
    \/ Tick
    \/ \E c \in Conns, r \in SchedRequests : connect(c, "u1", r)
    \/ cycle_start
    \/ \E sym \in RequestedSymbols, f \in FetchOutcomes : update_symbol_data(sym, f)
    \/ \E sym \in Symbols : broadcast_step(sym)
    \/ cycle_end
    \/ \E d \in SchedAlertInputs : create_alert("u1", d)
    \/ \E sym \in RequestedSymbols, q \in EvalQuotes :
          \E order \in Perms(redis_symbol_alerts[sym]) :
             process_symbol_data(sym, q, order)
    \/ notify_resume

SpecFlow == InitRegistry /\ [][NextFlow]_vars

\* the polling loop while alerts are being created
NextFetch ==
    \/ Return
    \/ Tick
    \/ \E c \in Conns, r \in SchedRequests : connect(c, "u1", r)
    \/ cycle_start
    \/ \E sym \in Symbols, f \in FetchOutcomes : update_symbol_data(sym, f)
    \/ \E sym \in Symbols : broadcast_step(sym)
    \/ cycle_end
    \/ \E d \in SchedAlertInputs : create_alert("u1", d)

SpecFetch == InitRegistry /\ [][NextFetch]_vars

---------------------------------------------------------------------------
(* The polling loop with three active symbols, where its sleep is shorter  *)
(* than the minimum interval of a symbol.                                  *)

ThrottleRequest == <<"AAPL", "BTC-USD", "MSFT">>

ThrottleFetch ==
    {[outcome |-> "empty", quote |-> NoQuote],
     [outcome |-> "data",
      quote |-> [price |-> 1, change_percent |-> 0, rsi |-> None]]}

\* both clients have connected, c1 with a request for the three symbols and
\* c2 with a request for the first of them
InitThrottle ==
    /\ InitAlerts
    /\ active_connections =
          connect_symbols(connect_symbols(EmptyMap, "c1", ThrottleRequest),
                          "c2", <<Head(ThrottleRequest)>>)
    /\ decode_responses
    /\ user_connections = [u \in {"u1", "u2"} |->
                              IF u = "u1" THEN "c1" ELSE "c2"]
    /\ hpc = [c \in Conns |-> "connected"]
    /\ health = [c \in Conns |-> "open"]
    /\ InitRealTime

NextThrottle ==
    \/ Return
    \/ Advance
    \/ \E c \in Conns : disconnect(c)
    \/ \E c \in Conns : close(c)
    \/ cycle_start
    \/ \E sym \in Symbols, f \in ThrottleFetch : update_symbol_data(sym, f)
    \/ \E sym \in Symbols : broadcast_step(sym)
    \/ cycle_end

SpecThrottle == InitThrottle /\ [][NextThrottle]_vars

---------------------------------------------------------------------------
(* The polling loop under registries of zero to three active symbols, and  *)
(* its interval for longer lists of symbols.                               *)

PacingRequests == {<<"BTC-USD">>, <<"AAPL", "MSFT">>, ThrottleRequest}

PacingFetch == {[outcome |-> "empty", quote |-> NoQuote]}

\* line 97 of start_real_time_updates for a list of n active symbols
pacing_call(n) ==
    /\ ret = NoRet
    /\ ret' = [Returns("update_interval", update_interval(n)) EXCEPT !.arg = n]
    /\ UNCHANGED <<now, decode_responses, alertVars, notif, probe, regVars,
                   rtVars, price_history>>

NextPacing ==
    \/ Return
    \/ Advance
    \/ \E c \in Conns, r \in PacingRequests : connect(c, "u1", r)
    \/ \E c \in Conns : close(c)
    \/ \E c \in Conns : disconnect(c)
    \/ cycle_start
    \/ \E sym \in Symbols, f \in PacingFetch : update_symbol_data(sym, f)
    \/ cycle_end
    \/ \E n \in 1..MaxSymbols : pacing_call(n)

SpecPacing == InitRegistry /\ [][NextPacing]_vars

---------------------------------------------------------------------------
(* The polling loop on a service that has been running: the histories of   *)
(* its symbols are empty, near their capacity or at it.                    *)

HistoryLengths == {0, 98, 100}

\* the history after len refreshes one second apart, the last one 10 s ago
Prefilled(len) == [k \in 1..len |-> [timestamp |-> k - len - 10, price |-> 1]]

InitHistory ==
    /\ InitAlerts
    /\ decode_responses
    /\ active_connections = connect_symbols(EmptyMap, "c1", ThrottleRequest)
    /\ user_connections = [u \in {"u1"} |-> "c1"]
    /\ hpc = [c \in Conns |-> IF c = "c1" THEN "connected" ELSE "new"]
    /\ health = [c \in Conns |-> "open"]
    /\ bc = [sym \in Symbols |-> NoBroadcast]
    /\ sched = [pc |-> "sleep", pending |-> {}, running |-> {}, wake |-> 0,
                n |-> 0]
    /\ \E len \in HistoryLengths :
          /\ price_history = [sym \in Symbols |-> Prefilled(len)]
          /\ symbol_cache = [sym \in Symbols |->
                                IF len = 0 THEN NoQuote ELSE BroadcastQuote]
          /\ last_update = [sym \in Symbols |->
                               IF len = 0 THEN None ELSE 0 - 10]

NextHistory ==
    \/ Return
    \/ Advance
    \/ cycle_start
    \/ \E sym \in Symbols, f \in ThrottleFetch : update_symbol_data(sym, f)
    \/ \E sym \in Symbols : broadcast_step(sym)
    \/ cycle_end

SpecHistory == InitHistory /\ [][NextHistory]_vars

---------------------------------------------------------------------------
(* The trend of a price history.                                           *)

TrendPrices == {1, 2}

RECURSIVE SeqsUpTo(_, _)
SeqsUpTo(S, len) ==
    IF len = 0 THEN {<<>>}
    ELSE LET shorter == SeqsUpTo(S, len - 1)
         IN  shorter \cup {Append(q, x) : q \in shorter, x \in S}

Rising == [k \in 1..10 |-> k]
Falling == [k \in 1..10 |-> 11 - k]

TrendInputs == SeqsUpTo(TrendPrices, MaxLen) \cup {Rising, Falling}

\* the history whose points have the given prices
PointsOf(prices) ==
    [k \in DOMAIN prices |-> [timestamp |-> k, price |-> prices[k]]]

trend_call(prices) ==
    /\ ret = NoRet
    /\ ret' = [Returns("_calculate_price_trend", None) EXCEPT
                  !.prices = prices,
                  !.trend = _calculate_price_trend(PointsOf(prices))]
    /\ UNCHANGED <<now, decode_responses, alertVars, notif, probe, regVars,
                   rtVars, price_history>>

NextTrend ==
    \/ Return
    \/ \E prices \in TrendInputs : trend_call(prices)

SpecTrend == InitRegistry /\ [][NextTrend]_vars

---------------------------------------------------------------------------
(* The alert service under the requests of two users.                      *)

IndexInputs ==
    [symbol : {"BTC-USD", "<missing>"},
     condition : {"price_above", "volume_above", "<missing>"},
     value : {1, None}, expires_at : {None, 0}]

IndexQuote == [price |-> 2, change_percent |-> 0, rsi |-> None]

NextIndex ==
    \/ Tick
    \/ Return
    \/ \E u \in Users, d \in IndexInputs : create_alert(u, d)
    \/ \E u \in Users, id \in AlertIds : delete_alert(u, id)
    \/ \E order \in Perms(redis_symbol_alerts["BTC-USD"]) :
          process_symbol_data("BTC-USD", IndexQuote, order)
    \/ cleanup_expired_alerts

SpecIndex == InitAlert /\ [][NextIndex]_vars

---------------------------------------------------------------------------
(* The notifier while the users of the alerts connect and go away.         *)

NotifyInputs ==
    [symbol : {"BTC-USD"}, condition : {"price_above"}, value : {1},
     expires_at : {None}]

NextNotify ==
    \/ Return
    \/ Tick
    \/ connect("c1", "u1", <<"BTC-USD">>)
    \/ close("c1")
    \/ disconnect("c1")
    \/ \E u \in Users, d \in NotifyInputs : create_alert(u, d)
    \/ \E order \in Perms(redis_symbol_alerts["BTC-USD"]) :
          process_symbol_data("BTC-USD", IndexQuote, order)
    \/ notify_resume

SpecNotify == InitRegistry /\ [][NextNotify]_vars

---------------------------------------------------------------------------
(* Two users create, delete and list alerts.                               *)

NextQuery ==
    \/ Tick
    \/ Return
    \/ \E u \in Users, d \in NotifyInputs : create_alert(u, d)
    \/ \E u \in Users, id \in AlertIds : delete_alert(u, id)
    \/ \E u \in Users : get_user_alerts(u)

SpecQuery == InitAlert /\ [][NextQuery]_vars

---------------------------------------------------------------------------
(* A client reconnects under its id while its alerts are being delivered.  *)

NextReconnect ==
    \/ Return
    \/ \E c \in Conns : connect(c, "u1", <<"BTC-USD">>)
    \/ \E c \in Conns : close(c)
    \/ \E c \in Conns : disconnect(c)
    \/ \E d \in NotifyInputs : create_alert("u1", d)
    \/ \E order \in Perms(redis_symbol_alerts["BTC-USD"]) :
          process_symbol_data("BTC-USD", IndexQuote, order)
    \/ notify_resume

SpecReconnect == InitRegistry /\ [][NextReconnect]_vars

---------------------------------------------------------------------------
(* Properties                                                              *)

\* a step in which check_alerts_for_symbol runs (the start of a call of
\* process_symbol_data), and the symbol and quote it runs with
IsEvaluate ==
    /\ ret = NoRet
    /\ notif.pc = "idle"
    /\ (ret'.op = "process_symbol_data" \/ notif'.pc = "await")
EvalSymbol == IF notif'.pc = "await" THEN notif'.symbol ELSE ret'.symbol
EvalData == IF notif'.pc = "await" THEN notif'.data ELSE ret'.data

SeqToSet(q) == {q[k] : k \in DOMAIN q}

\* C2: when process_symbol_data returns, broadcast_to_user was called with
\* an alert_triggered message exactly once for every alert the call moved
\* from active to triggered and for no other alert, and every alert moved
\* to triggered is in the list check_alerts_for_symbol handed over.
C2_EveryTransitionIsNotifiedOnce ==
    ret.op = "process_symbol_data" =>
        /\ SeqToSet(ret.attempts) = ret.transitioned
        /\ Len(ret.attempts) = Cardinality(ret.transitioned)
        /\ ret.transitioned \subseteq SeqToSet(ret.handed)

\* C3: an evaluation of a symbol moves every active price_above alert of the
\* symbol that is not past its expires_at to triggered, with
\* notification_count one higher, when the price is above the threshold;
\* leaves it active with the same count when the price is not above it; and
\* leaves status, notification_count and last_triggered of an alert that is
\* not active as they were.
C3_PriceAboveTriggersOnce ==
    [][IsEvaluate =>
        \A id \in redis_symbol_alerts[EvalSymbol] \cap DOMAIN redis_alerts :
            LET a == redis_alerts[id]
                b == redis_alerts'[id]
                live == a.expires_at = None \/ a.expires_at >= now
            IN  /\ a.symbol = EvalSymbol
                /\ a.condition = "price_above"
                /\ EvalData.price # None
                => /\ (a.status = "active" /\ live
                          /\ EvalData.price > a.value)
                      => /\ b.status = "triggered"
                         /\ b.notification_count = a.notification_count + 1
                   /\ (a.status = "active" /\ live
                          /\ EvalData.price <= a.value)
                      => /\ b.status = "active"
                         /\ b.notification_count = a.notification_count
                   /\ a.status # "active"
                      => /\ b.status = a.status
                         /\ b.notification_count = a.notification_count
                         /\ b.last_triggered = a.last_triggered]_vars

\* the pass of _check_alert_condition the table of conditions asks for
TablePredicate(condition, value, data) ==
    LET field == IF condition \in {"price_above", "price_below"}
                 THEN data.price
                 ELSE IF condition \in {"percent_change_up",
                                        "percent_change_down"}
                 THEN data.change_percent
                 ELSE data.rsi
    IN  /\ field # None
        /\ IF condition \in {"price_above", "percent_change_up",
                             "rsi_overbought"}
           THEN field > value
           ELSE field < value

\* C4: the condition predicate is true exactly when the quote carries the
\* field the condition requires and the strict comparison of the table holds
\* against the threshold, whatever the other fields of the quote are.
C4_ConditionFollowsTable ==
    probe.condition # "none" =>
        probe.result = TablePredicate(probe.condition, probe.value, probe.data)

\* C5: a call of check_alerts_for_symbol or cleanup_expired_alerts leaves
\* every alert whose status is expired or cancelled stored as it was: same
\* status, notification_count and last_triggered.
C5_TerminalStatusIsFinal ==
    [][(IsEvaluate \/ ret'.op = "cleanup_expired_alerts") =>
        \A id \in DOMAIN redis_alerts :
            redis_alerts[id].status \in {"expired", "cancelled"} =>
                /\ id \in DOMAIN redis_alerts'
                /\ redis_alerts'[id].status = redis_alerts[id].status
                /\ redis_alerts'[id].notification_count =
                       redis_alerts[id].notification_count
                /\ redis_alerts'[id].last_triggered =
                       redis_alerts[id].last_triggered]_vars

\* C5 witness: an evaluation has just passed over an expired alert of the
\* evaluated symbol although the quote satisfies its condition
C5_Witness ==
    /\ ret.op = "process_symbol_data"
    /\ \E id \in ret.skipped \cap DOMAIN redis_alerts :
          /\ redis_alerts[id].status = "expired"
          /\ redis_alerts[id].symbol = ret.symbol
          /\ _check_alert_condition(redis_alerts[id], ret.data)

IsBroadcast == ret.op = "broadcast_to_symbol"

\* the connections whose send raised in the broadcast that just returned
Failed == {c \in Conns : Count(ret.tried, c) > Count(ret.sent, c)}

Subscribers(symbol) ==
    IF symbol \in DOMAIN active_connections
    THEN Range(active_connections[symbol]) ELSE {}

\* C6: when broadcast_to_symbol returns it has not raised, it has attempted
\* a send to every connection that was in the symbol's list when it was
\* called, and no connection whose send raised is left in the symbol's list.
C6_BroadcastSurvivesFailedSends ==
    IsBroadcast =>
        /\ ~ret.raised
        /\ Range(ret.start) \subseteq Range(ret.tried)
        /\ Failed \cap Subscribers(ret.symbol) = {}

\* C8: when broadcast_to_symbol returns, and each connection was in the
\* symbol's list once when it started, it has not raised and every
\* connection that no disconnect took from the list during the broadcast
\* has had exactly one send of the message.
C8_BroadcastSafeUnderMutation ==
    (IsBroadcast /\ \A c \in Conns : Count(ret.start, c) <= 1) =>
        /\ ~ret.raised
        /\ \A c \in Range(ret.start) \ ret.left : Count(ret.tried, c) = 1

\* C9: when disconnect(websocket) has returned, the websocket is in the list
\* of no symbol and no client id maps to it.
C9_DisconnectedIsGone ==
    ret.op = "disconnect" =>
        /\ \A sym \in Symbols : ret.conn \notin Subscribers(sym)
        /\ \A k \in DOMAIN user_connections : user_connections[k] # ret.conn

\* C10: when disconnect(websocket) has returned, a second disconnect of the
\* same websocket leaves active_connections and user_connections as they are.
C10_DisconnectIdempotent ==
    ret.op = "disconnect" =>
        /\ disconnect_symbols(active_connections, ret.conn) = active_connections
        /\ disconnect_user(user_connections, ret.conn) = user_connections

\* C1: when a refresh of a symbol by the polling loop has returned with a
\* quote, no alert of the symbol that was created before the quote was
\* fetched is left active, if it has no expiry and the quote satisfies its
\* condition.
C1_RefreshTriggersMatchingAlerts ==
    (IsBroadcast /\ ret.caller = "update_symbol_data") =>
        \A id \in DOMAIN redis_alerts :
            LET alert == redis_alerts[id]
            IN  ~ /\ id < ret.val
                  /\ alert.symbol = ret.symbol
                  /\ alert.status = "active"
                  /\ alert.expires_at = None
                  /\ _check_alert_condition(alert, ret.data)

\* C7: a broadcast_to_symbol that is waiting for a send eventually returns,
\* and a gather of the polling loop eventually returns, whatever the peers
\* of the subscribers do.
C7_BroadcastNotStalledByBlockedPeer ==
    /\ \A sym \in Symbols : (bc[sym].pc = "await") ~> (bc[sym].pc = "idle")
    /\ (sched.pc = "gather") ~> (sched.pc = "sleep")

\* C11: when connect(websocket, client_id, symbols) has returned, the
\* websocket is in the list of each symbol at most once, and a broadcast
\* that has returned has sent to no connection more than once.
C11_ConnectIsIdempotent ==
    /\ ret.op = "connect" =>
          \A sym \in DOMAIN active_connections :
              Count(active_connections[sym], ret.conn) <= 1
    /\ IsBroadcast => \A c \in Conns : Count(ret.tried, c) <= 1

\* the class minimum interval of a symbol
MinInterval(symbol) == IF IsCrypto(symbol) THEN 3 ELSE 5

\* C12: the fetches of a symbol that returned data and were broadcast (each
\* leaves a point in price_history) are at least the symbol's minimum
\* interval apart.
C12_RefreshesRespectThrottle ==
    \A sym \in Symbols :
        \A k \in 2..Len(price_history[sym]) :
            price_history[sym][k].timestamp
              - price_history[sym][k - 1].timestamp >= MinInterval(sym)

\* C15: delete_alert(user_id, alert_id) returns True exactly when the alert
\* exists and is user_id's, and otherwise leaves the alert records and both
\* indexes as they are.
C15_DeleteOnlyOwnAlert ==
    [][ret'.op = "delete_alert" =>
          LET id == ret'.handed[1]
              owned == /\ id \in DOMAIN redis_alerts
                       /\ redis_alerts[id].user_id = ret'.user
          IN  /\ ret'.val = 1 <=> owned
              /\ ~owned => UNCHANGED alertVars]_vars

\* C16: an id is in user_alerts:<u> exactly when an alert with that id is
\* stored and has user_id u, and in symbol_alerts:<s> exactly when an alert
\* with that id is stored and has symbol s.
C16_IndexesMatchRecords ==
    /\ \A u \in Users : \A id \in AlertIds :
          id \in redis_user_alerts[u] <=>
             (id \in DOMAIN redis_alerts /\ redis_alerts[id].user_id = u)
    /\ \A sym \in Symbols : \A id \in AlertIds :
          id \in redis_symbol_alerts[sym] <=>
             (id \in DOMAIN redis_alerts /\ redis_alerts[id].symbol = sym)

\* C17: no stored alert has a condition outside the six defined ones, and a
\* create_alert that has returned an alert has stored it active, with
\* notification_count 0, in the index of its user and of its symbol.
C17_CreateValidates ==
    /\ \A id \in DOMAIN redis_alerts :
          redis_alerts[id].condition \in AlertConditions
    /\ (ret.op = "create_alert" /\ ret.val # None) =>
          /\ ret.val \in DOMAIN redis_alerts
          /\ redis_alerts[ret.val].status = "active"
          /\ redis_alerts[ret.val].notification_count = 0
          /\ ret.val \in redis_user_alerts[redis_alerts[ret.val].user_id]
          /\ ret.val \in redis_symbol_alerts[redis_alerts[ret.val].symbol]

\* C18: a create_alert that returns an alert gives it an id that no stored
\* alert had.
C18_CreateNeverReusesId ==
    [][(ret'.op = "create_alert" /\ ret'.val # None) =>
          ret'.val \notin DOMAIN redis_alerts]_vars

\* the ids of the alerts check_alerts_for_symbol returned in the evaluation
EvalHanded ==
    IF notif'.pc = "await"
    THEN {notif'.triggered[k].id : k \in DOMAIN notif'.triggered}
    ELSE SeqToSet(ret'.handed)

Overdue(alert, t) == alert.expires_at >= 0 /\ t > alert.expires_at
WellFormed(alert) == alert.expires_at # BadExpiry

\* C19: with a Redis client that returns bytes, an evaluation of a symbol
\* triggers and returns every well-formed active alert of the symbol that
\* is not overdue and whose condition the quote satisfies, and a sweep
\* expires every well-formed active alert that is overdue, whatever other
\* alerts are stored.
C19_MalformedAlertIsIsolated ==
    [][/\ (IsEvaluate /\ ~decode_responses) =>
            \A id \in redis_symbol_alerts[EvalSymbol] \cap DOMAIN redis_alerts :
                LET a == redis_alerts[id]
                IN  (/\ a.status = "active"
                     /\ WellFormed(a)
                     /\ ~Overdue(a, now)
                     /\ _check_alert_condition(a, EvalData))
                    => /\ redis_alerts'[id].status = "triggered"
                       /\ id \in EvalHanded
       /\ ret'.op = "cleanup_expired_alerts" =>
            \A id \in DOMAIN redis_alerts :
                (redis_alerts[id].status = "active"
                    /\ Overdue(redis_alerts[id], now))
                => redis_alerts'[id].status = "expired"]_vars

\* C20: an evaluation of a symbol moves every active alert of the symbol
\* that is overdue to expired, without raising its notification_count and
\* without returning it, and moves no other alert to expired.
C20_OverdueAlertExpiresUntriggered ==
    [][IsEvaluate =>
        \A id \in redis_symbol_alerts[EvalSymbol] \cap DOMAIN redis_alerts :
            LET a == redis_alerts[id]
                b == redis_alerts'[id]
            IN  /\ (a.status = "active" /\ Overdue(a, now))
                   => /\ b.status = "expired"
                      /\ b.notification_count = a.notification_count
                      /\ id \notin EvalHanded
                /\ (a.status = "active" /\ ~Overdue(a, now))
                   => b.status # "expired"]_vars

\* C13: a call of update_symbol_data whose fetch raised or was empty leaves
\* price_history, symbol_cache and last_update as they were, starts no
\* broadcast and changes no alert; the symbol is still due; and the other
\* tasks of the gather stay as they were, pending or running.
C13_FailedFetchChangesNothing ==
    [][ret'.op = "update_symbol_data" =>
          /\ UNCHANGED <<price_history, symbol_cache, last_update>>
          /\ UNCHANGED <<bc, active_connections, user_connections>>
          /\ UNCHANGED <<alertVars, notif>>
          /\ _should_update(ret'.symbol, now)
          /\ sched' = [sched EXCEPT !.pending = @ \ {ret'.symbol}]]_vars

\* a fetch has failed while the task of another symbol of the same gather
\* is still to run, and an alert is stored
C13_Witness ==
    /\ ret.op = "update_symbol_data"
    /\ sched.pending # {}
    /\ redis_alerts # EmptyMap

\* C14: every key of active_connections, which is what the polling loop
\* takes as the active symbols, has at least one connection in its list.
C14_ActiveSymbolHasSubscriber ==
    \A sym \in DOMAIN active_connections : active_connections[sym] # <<>>

\* C21: when cleanup_expired_alerts has returned, no stored alert is active
\* and overdue; the alerts that were active and overdue are expired and all
\* other alerts are as they were; and the number returned is the number of
\* alerts the call expired.
C21_SweepExpiresAllOverdue ==
    [][ret'.op = "cleanup_expired_alerts" =>
          LET due == {id \in DOMAIN redis_alerts :
                         /\ redis_alerts[id].status = "active"
                         /\ Overdue(redis_alerts[id], now)}
          IN  /\ DOMAIN redis_alerts' = DOMAIN redis_alerts
              /\ \A id \in due : redis_alerts'[id].status = "expired"
              /\ \A id \in DOMAIN redis_alerts \ due :
                    redis_alerts'[id] = redis_alerts[id]
              /\ ret'.val = Cardinality(due)]_vars

IsResume == notif.pc = "await" /\ notif' # notif

\* the alerts for which the running or just returned call of
\* process_symbol_data has called send_json
CurSends == IF ret.op = "process_symbol_data" THEN ret.sends ELSE notif.sends
NewSends ==
    IF IsEvaluate \/ IsResume
    THEN {CurSends'[k] : k \in (Len(CurSends) + 1)..Len(CurSends')}
    ELSE {}

\* C22: the notifier calls send_json for an alert only when the user of the
\* alert has a connection at that moment, and changes neither
\* active_connections nor user_connections; the evaluation that triggers an
\* alert raises its notification_count by one whether or not the user has a
\* connection, and nothing after the evaluation writes the alerts; a call
\* delivers only alerts it has triggered itself and sent; and a connect
\* delivers nothing.
C22_NoConnectionNoDelivery ==
    [][/\ NewSends # {} =>
             /\ notif'.pc = "await"
             /\ NewSends = {notif'.triggered[notif'.idx].id}
             /\ notif'.triggered[notif'.idx].user_id
                   \in DOMAIN user_connections
       /\ (IsEvaluate \/ IsResume) =>
             UNCHANGED <<active_connections, user_connections>>
       /\ IsEvaluate =>
             \A id \in DOMAIN redis_alerts :
                 (redis_alerts[id].status = "active"
                     /\ redis_alerts'[id].status = "triggered")
                 => redis_alerts'[id].notification_count =
                       redis_alerts[id].notification_count + 1
       /\ IsResume => UNCHANGED alertVars
       /\ ret'.op = "process_symbol_data" =>
             SeqToSet(ret'.delivered) \subseteq
                SeqToSet(ret'.sends) \cap ret'.transitioned
       /\ ret'.op = "connect" => UNCHANGED <<notif, alertVars>>]_vars

\* a call of process_symbol_data has returned having triggered an alert of
\* a user without connection and delivered an alert of a user with one
C22_Witness ==
    /\ ret.op = "process_symbol_data"
    /\ ret.transitioned \ SeqToSet(ret.sends) # {}
    /\ ret.delivered # <<>>

\* C23: when broadcast_to_symbol has returned without raising, over a list
\* that held each connection once, every connection whose send raised is in
\* the list of no symbol and no client id maps to it.
C23_FailedSendEvictsEverywhere ==
    (IsBroadcast /\ ~ret.raised /\ \A c \in Conns : Count(ret.start, c) <= 1) =>
        \A c \in Failed :
            /\ \A sym \in Symbols : c \notin Subscribers(sym)
            /\ \A k \in DOMAIN user_connections : user_connections[k] # c

\* a step in which the polling loop begins a sleep, and its length
Sleeps == sched'.wake # sched.wake
Slept == sched'.wake - now

\* k = max(2, 10 / n) in exact arithmetic
ExactPace(n, k) == IF 2 * n >= 10 THEN k = 2 ELSE k * n = 10

\* k = max(2, floor(10 / n))
WholePace(n, k) == IF 2 * n > 10 THEN k = 2 ELSE k * n <= 10 /\ 10 < (k + 1) * n

\* C24 as stated: every sleep of the polling loop lasts 10 s when there is
\* no active symbol and max(2, 10 / n) s after a batch over n >= 1 active
\* symbols, which is at least 2 s.
C24_PacingFollowsTable ==
    [][/\ Sleeps =>
             /\ Slept >= 2
             /\ sched'.n = 0 => Slept = 10
             /\ sched'.n >= 1 => ExactPace(sched'.n, Slept)
       /\ ret'.op = "update_interval" => ExactPace(ret'.arg, ret'.val)]_vars

\* C24, amended: every sleep of the polling loop lasts 10 s when there is no
\* active symbol and max(2, 10 / n rounded down to whole seconds) after a
\* batch over n >= 1 active symbols (10, 5, 3, 2, 2, ...), which is at
\* least 2 s.
C24_PacingIsWholeSeconds ==
    [][/\ Sleeps =>
             /\ Slept >= 2
             /\ sched'.n = 0 => Slept = 10
             /\ sched'.n >= 1 => WholePace(sched'.n, Slept)
       /\ ret'.op = "update_interval" =>
             ret'.val >= 2 /\ WholePace(ret'.arg, ret'.val)]_vars

\* the loop has gone to sleep for 3 s after a batch over three symbols
C24_Witness ==
    /\ sched.pc = "sleep"
    /\ sched.n = 3
    /\ sched.wake = now + 3
    /\ \A sym \in Symbols : sym \in DOMAIN active_connections

\* a step in which update_symbol_data(sym) has got data and built its message
Refreshes(sym) ==
    /\ bc[sym].pc = "idle"
    /\ \/ bc'[sym].pc = "await" /\ bc'[sym].caller = "update_symbol_data"
       \/ /\ ret'.op = "broadcast_to_symbol"
          /\ ret'.caller = "update_symbol_data"
          /\ ret'.symbol = sym

\* C25: the history of a symbol never holds more than 100 points; it changes
\* only in a refresh that got data, which puts one point with the time of
\* the refresh at the end, after the points it held before, all of them
\* when there were fewer than 100 and all but the first when there were 100.
C25_HistoryIsRingBuffer ==
    [][\A sym \in Symbols :
          LET h == price_history[sym]
              h2 == price_history'[sym]
          IN  /\ Len(h2) <= 100
              /\ Refreshes(sym) <=> h2 # h
              /\ h2 # h =>
                    /\ h2[Len(h2)].timestamp = now
                    /\ h2 = IF Len(h) < 100
                            THEN Append(h, h2[Len(h2)])
                            ELSE Append(Tail(h), h2[Len(h2)])]_vars

\* a history that held 100 points has been refreshed once: its oldest point
\* is gone and the other 99 are followed by the new one
C25_Witness ==
    \E sym \in Symbols :
        /\ Len(price_history[sym]) = 100
        /\ price_history[sym][1] = Prefilled(100)[2]
        /\ price_history[sym][99] = Prefilled(100)[100]
        /\ price_history[sym][100].timestamp = now

\* the least squares slope of y against 0..n-1 as a fraction with a positive
\* denominator, from the differences of all pairs of points:
\* sum (j - i)(y[j] - y[i]) / sum (j - i)^2 over i < j
PairSlope(y) ==
    LET n == Len(y)
        over(f(_, _)) ==
            SumSeq([i \in 1..n |->
                SumSeq([j \in 1..n |-> IF i < j THEN f(i, j) ELSE 0])])
        rise(i, j) == (j - i) * (y[j] - y[i])
        run(i, j) == (j - i) * (j - i)
    IN  [num |-> over(rise), den |-> over(run)]

\* C26: the trend of a history of fewer than 5 points is neutral; the trend
\* of a longer one is up when the least squares slope of its last at most 10
\* prices is above 0.001, down when it is below -0.001 and neutral
\* otherwise; 1..10 is up, 10..1 is down, equal prices are neutral.
C26_TrendFollowsSlope ==
    ret.op = "_calculate_price_trend" =>
        LET y == ret.prices
            last == [k \in 1..(IF Len(y) < 10 THEN Len(y) ELSE 10) |->
                        y[Len(y) - (IF Len(y) < 10 THEN Len(y) ELSE 10) + k]]
            slope == PairSlope(last)
        IN  /\ Len(y) < 5 => ret.trend = "neutral"
            /\ Len(y) >= 5 =>
                  /\ ret.trend = "up" <=> 1000 * slope.num > slope.den
                  /\ ret.trend = "down" <=> 1000 * slope.num < 0 - slope.den
                  /\ ret.trend \in {"up", "down", "neutral"}
            /\ y = Rising => ret.trend = "up"
            /\ y = Falling => ret.trend = "down"
            /\ (Len(y) >= 5 /\ \A k \in DOMAIN y : y[k] = y[1]) =>
                  ret.trend = "neutral"

\* the trend of a history of 11 points has been computed as neutral from
\* its last 10 points, which are equal, while its first point is higher
C26_Witness ==
    /\ ret.op = "_calculate_price_trend"
    /\ Len(ret.prices) = 11
    /\ ret.prices[1] = 2
    /\ \A k \in 2..11 : ret.prices[k] = 1
    /\ ret.trend = "neutral"

\* C27: while update_symbol_data awaits its broadcast, and when the
\* broadcast has returned or raised, the cache and last_update of the symbol
\* hold the message being broadcast and its time; and the last point of a
\* history has the time of last_update.
C27_CacheSetBeforeBroadcast ==
    /\ \A sym \in Symbols :
          (bc[sym].pc = "await" /\ bc[sym].caller = "update_symbol_data") =>
              /\ symbol_cache[sym] = bc[sym].message
              /\ last_update[sym] = bc[sym].time
    /\ (IsBroadcast /\ ret.caller = "update_symbol_data") =>
          /\ symbol_cache[ret.symbol] = ret.data
          /\ last_update[ret.symbol] = ret.val
    /\ \A sym \in Symbols :
          price_history[sym] # <<>> =>
              last_update[sym] = price_history[sym][Len(price_history[sym])].timestamp

\* the fields of a stored alert agree: it has been notified of never or
\* once, and it is triggered exactly when it has been, and exactly then it
\* has a time of triggering
CountsAgree(alert) ==
    /\ alert.notification_count \in {0, 1}
    /\ alert.status = "triggered" <=> alert.notification_count = 1
    /\ alert.notification_count = 1 <=> alert.last_triggered # None

\* C28: the fields of every stored alert agree, and a stored alert that is
\* not active is not active after any step that leaves it stored.
C28_TriggeredOnceForGood ==
    [][/\ \A id \in DOMAIN redis_alerts' : CountsAgree(redis_alerts'[id])
       /\ \A id \in DOMAIN redis_alerts \cap DOMAIN redis_alerts' :
             redis_alerts[id].status # "active" =>
                 redis_alerts'[id].status # "active"]_vars

\* C29: when get_user_alerts(u) has returned, its result holds, once each,
\* the stored alerts whose user_id is u, and nothing else.
C29_ListIsOwnStoredAlerts ==
    ret.op = "get_user_alerts" =>
        /\ SeqToSet(ret.handed) =
              {id \in DOMAIN redis_alerts : redis_alerts[id].user_id = ret.user}
        /\ Len(ret.handed) = Cardinality(SeqToSet(ret.handed))

\* C30: connect maps one client id to the websocket and leaves the other
\* mappings alone; disconnect(c) leaves every mapping to another websocket
\* alone and no mapping to c; and a message for a user is sent to the
\* websocket the user's id is mapped to.
C30_UserMapKeepsNewest ==
    [][/\ ret'.op = "connect" =>
             \E client_id \in DOMAIN user_connections' :
                 /\ user_connections'[client_id] = ret'.conn
                 /\ DOMAIN user_connections' =
                       DOMAIN user_connections \cup {client_id}
                 /\ \A k \in DOMAIN user_connections \ {client_id} :
                       user_connections'[k] = user_connections[k]
       /\ ret'.op = "disconnect" =>
             /\ \A k \in DOMAIN user_connections :
                   user_connections[k] # ret'.conn =>
                       /\ k \in DOMAIN user_connections'
                       /\ user_connections'[k] = user_connections[k]
             /\ \A k \in DOMAIN user_connections' :
                   user_connections'[k] # ret'.conn
       /\ NewSends # {} =>
             /\ notif'.triggered[notif'.idx].user_id \in DOMAIN user_connections
             /\ notif'.conn =
                   user_connections[notif'.triggered[notif'.idx].user_id]]_vars

\* u1 has connected as c1 and again as c2, c1 has been disconnected while an
\* alert of u1 was being delivered to it, and u1 is still mapped to c2
C30_Witness ==
    /\ ret.op = "disconnect"
    /\ ret.conn = "c1"
    /\ "u1" \in DOMAIN user_connections
    /\ user_connections["u1"] = "c2"
    /\ notif.pc = "await"
    /\ notif.conn = "c1"

=============================================================================
